---- MODULE Spec2Model ----
(***************************************************************************)
(* mindl command line driver (cli.go): main resolves the handlers of every *)
(* URL, negotiates their options, then for each URL selects a plugin and   *)
(* runs startDownloading, which drives DownloadManager.Download next to a  *)
(* ticker-driven progress reporter goroutine.                              *)
(* PluginManager and DownloadManager live in other files of the package;   *)
(* they are modelled from their documented contract.                       *)
(***************************************************************************)
EXTENDS Integers, Sequences, FiniteSets, TLC

\* ---------------------------------------------------------------- bounds
MaxUrls == 2
MaxItems == 2
MaxWorkers == 2
\* flag parsing: longest -o argument and number of -o arguments
MaxArgLen == 3
MaxSets == 3

None == "none"

\* ------------------------------------------------- plugin registry (Plugins)
Plugins == <<"P1", "P2", "P3">>

PluginSet == {Plugins[n] : n \in 1..Len(Plugins)}

UrlKinds == {"a", "b", "n"}

\* claim predicate of a handler: "a" is claimed by P1, "b" by P2 and P3,
\* "n" by nobody
Claims(p, u) ==
  CASE p = "P1" -> u = "a"
    [] p = "P2" -> u = "b"
    [] p = "P3" -> u = "b"

\* declared option descriptors of a handler, in declaration order
OptionsOf(p) ==
  CASE p = "P1" -> <<[key |-> "user", required |-> TRUE, default |-> None]>>
    [] p = "P2" -> <<[key |-> "quality", required |-> FALSE, default |-> "high"]>>
    [] p = "P3" -> <<[key |-> "token", required |-> TRUE, default |-> "tk"],
                     [key |-> "fmt", required |-> FALSE, default |-> None]>>

KeysOf(p) == {OptionsOf(p)[n].key : n \in 1..Len(OptionsOf(p))}

\* handler-declared concurrency ceiling: P1 is forced serial, P3 declares none
HasCeiling(p) == p \in {"P1", "P2"}

Ceiling(p) ==
  CASE p = "P1" -> 1
    [] p = "P2" -> 2
    [] p = "P3" -> 0

\* values the -o flag can have after parsing
NoOptions == [k \in {} |-> None]

OptionMaps ==
  { NoOptions,
    [k \in {"user", "token"} |-> IF k = "user" THEN "alice" ELSE "secret"] }

\* what the operator types at an option prompt (never empty for a required one)
Answers == {"typed"}

\* --------------------------------------------------- OptionsFlag (-o)
\* a string is the sequence of its characters
Chars == {"k", "="}

Strings(n) == UNION {[1..m -> Chars] : m \in 0..n}

ErrInvalidOptionFormat == "Invalid option format. Should be key=value."

IndexLastEq(v) ==
  IF \E n \in 1..Len(v) : v[n] = "="
    THEN CHOOSE n \in 1..Len(v) : v[n] = "=" /\ \A m \in (n + 1)..Len(v) : v[m] # "="
    ELSE 0

\* position of the first "=" in v, 0 when there is none
IndexEq(v) ==
  IF \E n \in 1..Len(v) : v[n] = "="
    THEN CHOOSE n \in 1..Len(v) : v[n] = "=" /\ \A m \in 1..(n - 1) : v[m] # "="
    ELSE 0

\* strings.SplitN(v, "=", 2): at most two pieces, cut at the first "="
SplitN2(v) ==
  LET n == IndexEq(v)
  IN IF n = 0 THEN <<v>>
     ELSE <<SubSeq(v, 1, n - 1), SubSeq(v, n + 1, Len(v))>>

\* (opt *OptionsFlag) Set(v), lines 68-79; the nil map is the empty map
OptionsFlagSet(opt, v) ==
  LET split == SplitN2(v)
  IN IF Len(split) < 2
       THEN [err |-> ErrInvalidOptionFormat, opt |-> opt]
       ELSE [err |-> None,
             opt |-> [k \in DOMAIN opt \cup {split[1]} |->
                        IF k = split[1] THEN split[2] ELSE opt[k]]]

\* ------------------------------------------------------------------ state
VARIABLES
  urls, options, workers, defaults, noprompt, override,   \* cli.go:85-91
  pc, i, handlers, plugin,                                \* position of main
  bundle, configured, prompts,                            \* PluginManager
  logs, started, runLogs,                                 \* observable results
  dm,                                                     \* DownloadManager
  panicking, dpc,                                         \* startDownloading
  rpc, tickerOn, tickPending, lrReleased, stopAcked,
  oargs, setErr                                           \* flag.Parse, -o

cliVars == <<urls, options, workers, defaults, noprompt, override, oargs, setErr>>
mainVars == <<pc, i, handlers, plugin>>
pmVars == <<bundle, configured, prompts>>
\* logs: the error and fatal records of main; runLogs: what the current call
\* of startDownloading has logged for its URL
obsVars == <<logs, started, runLogs>>
sdVars == <<panicking, dpc>>
repVars == <<rpc, tickerOn, tickPending, lrReleased, stopAcked>>
vars == <<cliVars, mainVars, pmVars, obsVars, dm, sdVars, repVars>>

\* ------------------------------------------------------- PluginManager
RECURSIVE SelectClaiming(_, _)
SelectClaiming(ps, u) ==
  IF ps = <<>> THEN <<>>
  ELSE IF Claims(Head(ps), u) THEN <<Head(ps)>> \o SelectClaiming(Tail(ps), u)
  ELSE SelectClaiming(Tail(ps), u)

\* pm.FindHandlers(urls): per URL the candidates in registry order
FindHandlers(us) == [n \in 1..Len(us) |-> SelectClaiming(Plugins, us[n])]

\* the Option Negotiator for one descriptor
NegotiateOption(opt, overrides, useDefaults, noPrompt, answer) ==
  IF opt.key \in DOMAIN overrides
    THEN [val |-> overrides[opt.key], prompted |-> FALSE, err |-> None]
  ELSE IF useDefaults /\ opt.default # None
    THEN [val |-> opt.default, prompted |-> FALSE, err |-> None]
  ELSE IF opt.required
    THEN IF noPrompt
           THEN [val |-> None, prompted |-> FALSE, err |-> opt.key]
           ELSE [val |-> answer, prompted |-> TRUE, err |-> None]
  ELSE [val |-> None, prompted |-> FALSE, err |-> None]

RECURSIVE NegotiatePlugin(_, _, _, _, _, _)
NegotiatePlugin(opts, overrides, useDefaults, noPrompt, answer, acc) ==
  IF opts = <<>> \/ acc.err # None THEN acc
  ELSE LET o == Head(opts)
           r == NegotiateOption(o, overrides, useDefaults, noPrompt, answer)
       IN NegotiatePlugin(Tail(opts), overrides, useDefaults, noPrompt, answer,
            [vals |-> [acc.vals EXCEPT ![o.key] = r.val],
             asked |-> IF r.prompted THEN acc.asked \cup {<<o.key, r.val>>}
                       ELSE acc.asked,
             err |-> r.err])

\* pm.SetOptions(candidates, overrides, useDefaults, noPrompt): negotiates
\* every candidate in order and stops at the first failure
RECURSIVE SetOptions(_, _, _, _, _, _)
SetOptions(cands, overrides, useDefaults, noPrompt, answer, st) ==
  IF cands = <<>> \/ st.err # None THEN st
  ELSE LET p == Head(cands)
           r == NegotiatePlugin(OptionsOf(p), overrides, useDefaults, noPrompt,
                  answer, [vals |-> st.bundle[p], asked |-> {}, err |-> None])
       IN SetOptions(Tail(cands), overrides, useDefaults, noPrompt, answer,
            [bundle |-> [st.bundle EXCEPT ![p] = r.vals],
             configured |-> IF r.err = None THEN st.configured \cup {p}
                            ELSE st.configured \ {p},
             prompts |-> st.prompts \cup {<<p, a[1], a[2]>> : a \in r.asked},
             err |-> r.err])

\* pm.SelectPlugin(candidates) with the operator's choice
SelectPlugin(cands, choice) ==
  IF Len(cands) = 0 THEN [err |-> "no handler", p |-> None]
  ELSE IF Len(cands) = 1 THEN [err |-> None, p |-> cands[1]]
  ELSE IF choice \in 1..Len(cands) THEN [err |-> None, p |-> cands[choice]]
  ELSE [err |-> "invalid choice", p |-> None]

\* ------------------------------------------------------------- logging
\* log.Fatal / log.Fatalf write the record and exit the process
Exits(level) == level = "fatal"

Log(level, msg, n, arg) == [level |-> level, msg |-> msg, url |-> n, arg |-> arg]

\* ------------------------------------------------------------------ main
\* the call of line 141
SetOptionsCallSwapped(h, answer, st) ==
  SetOptions(h, options, noprompt, defaults, answer, st)

SetOptionsCall(h, answer, st) ==
  SetOptions(h, options, defaults, noprompt, answer, st)

NoHandlerLevel == "error"

SetOptionsErrLevelError == "error"

SetOptionsErrLevel == "fatal"

SelectErrLevel == "fatal"

PanicLevel == "fatal"

DownloadErrLevelFatal == "fatal"

DownloadErrLevel == "error"

\* where the first loop goes after the body for URL n
AfterSetOptionsBreak(n) ==
  [pc |-> "select", i |-> 1]

AfterSetOptions(n) ==
  IF n < Len(urls) THEN [pc |-> "negotiate", i |-> n + 1]
  ELSE [pc |-> "select", i |-> 1]

\* where the second loop goes after the body for URL n
AfterUrl(n) ==
  IF n < Len(urls) THEN [pc |-> "select", i |-> n + 1]
  ELSE [pc |-> "done", i |-> n]

IdleDm ==
  [phase |-> "idle", exhausted |-> FALSE, effective |-> 0, items |-> <<>>,
   active |-> {}, completed |-> 0, failed |-> 0,
   dls |-> <<>>, reported |-> 0]

Init ==
  /\ urls \in UNION {[1..n -> UrlKinds] : n \in 1..MaxUrls}
  /\ options \in OptionMaps
  /\ workers \in 1..MaxWorkers
  /\ defaults \in BOOLEAN
  /\ noprompt \in BOOLEAN
  /\ override \in BOOLEAN
  /\ pc = "negotiate"
  /\ i = 1
  /\ handlers = FindHandlers(urls)
  /\ plugin = None
  /\ bundle = [p \in PluginSet |-> [k \in KeysOf(p) |-> None]]
  /\ configured = {}
  /\ prompts = {}
  /\ logs = {}
  /\ started = {}
  /\ runLogs = {}
  /\ dm = IdleDm
  /\ panicking = FALSE
  /\ dpc = 0
  /\ rpc = "none"
  /\ tickerOn = FALSE
  /\ tickPending = FALSE
  /\ lrReleased = FALSE
  /\ stopAcked = FALSE
  /\ oargs = <<>>
  /\ setErr = None

\* body of the first loop (lines 135-144) for URL i
Negotiate ==
  /\ pc = "negotiate"
  /\ \E answer \in Answers :
       LET h == handlers[i]
           l1 == IF Len(h) = 0
                   THEN logs \cup {Log(NoHandlerLevel, "no handler", i, None)}
                   ELSE logs
           r == SetOptionsCall(h, answer,
                  [bundle |-> bundle, configured |-> configured,
                   prompts |-> prompts, err |-> None])
           nxt == AfterSetOptions(i)
       IN /\ bundle' = r.bundle
          /\ configured' = r.configured
          /\ prompts' = r.prompts
          /\ IF r.err # None
               THEN /\ logs' = l1 \cup {Log(SetOptionsErrLevel, "negotiation", i, r.err)}
                    /\ IF Exits(SetOptionsErrLevel)
                         THEN pc' = "exited" /\ i' = i
                         ELSE pc' = nxt.pc /\ i' = nxt.i
               ELSE /\ logs' = l1
                    /\ pc' = nxt.pc /\ i' = nxt.i
  /\ UNCHANGED <<cliVars, handlers, plugin, started, runLogs, dm, sdVars, repVars>>

\* --------------------------------------------------- DownloadManager
\* step 2 of Download: the pool size
EffectiveConcurrency(requested, hasCeiling, ceiling, ov) ==
  IF hasCeiling /\ ~ov THEN ceiling ELSE requested

\* dm.ProgressString(): a snapshot of the shared tallies
ProgressString(d) == <<d.completed, d.failed>>

\* the workers of the pool are interchangeable: a busy worker is identified by
\* the item it is fetching
Active(d) == Cardinality(d.active)

\* the result set keeps one slot per item, in the order the items were claimed
RecordAtEnd(items, k, st) ==
  LET rest == SelectSeq(items, LAMBDA it : it.id # k)
  IN Append(rest, [id |-> k, state |-> st])

RecordAbortsSiblings(items, k, st) ==
  [n \in 1..Len(items) |->
     IF items[n].id = k \/ (st = "failed" /\ items[n].state = "inprogress")
       THEN [id |-> items[n].id, state |-> st] ELSE items[n]]

Record(items, k, st) ==
  [n \in 1..Len(items) |->
     IF items[n].id = k THEN [id |-> k, state |-> st] ELSE items[n]]

\* tally update of a worker that finished an item
TallyReset(d, ok) ==
  IF ok THEN [d EXCEPT !.completed = d.completed + 1]
  ELSE [d EXCEPT !.failed = 1]

Tally(d, ok) ==
  IF ok THEN [d EXCEPT !.completed = d.completed + 1]
  ELSE [d EXCEPT !.failed = d.failed + 1]

\* ------------------------------------------------------ startDownloading
\* the deferred calls in the order they run (last registered first):
\* lines 178-181, line 172, lines 167-171
DeferOpsReleaseFirst == <<"lr.Release", "ticker.Stop", "done<-", "recover">>

DeferOpsNoStop == <<"ticker.Stop", "lr.Release", "recover">>

DeferOpsSendTwice == <<"ticker.Stop", "done<-", "done<-", "lr.Release", "recover">>

DeferOps == <<"ticker.Stop", "done<-", "lr.Release", "recover">>

HandlerAtFirst(n) == handlers[1]

\* h of "for i, h := range handlers" (line 147)
HandlerAt(n) == handlers[n]

\* second loop body (lines 147-160) up to the Download call of line 194:
\* SelectPlugin, then startDownloading creates the manager, reserves the
\* line, registers the deferred calls, starts the ticker and the reporter
Select ==
  /\ pc = "select"
  /\ \E choice \in 1..(Len(HandlerAt(i)) + 1) :
       LET r == SelectPlugin(HandlerAt(i), choice)
           nxt == AfterUrl(i)
       IN IF r.err # None
            THEN /\ logs' = logs \cup {Log(SelectErrLevel, "selection", i, r.err)}
                 /\ IF Exits(SelectErrLevel)
                      THEN pc' = "exited" /\ i' = i
                      ELSE pc' = nxt.pc /\ i' = nxt.i
                 /\ UNCHANGED <<plugin, started, dm, sdVars, repVars>>
            ELSE /\ plugin' = r.p
                 /\ started' = started \cup {i}
                 /\ pc' = "download"
                 /\ dm' = [IdleDm EXCEPT !.phase = "resolve"]
                 /\ panicking' = FALSE
                 /\ dpc' = 0
                 /\ rpc' = "select"
                 /\ tickerOn' = TRUE
                 /\ tickPending' = FALSE
                 /\ lrReleased' = FALSE
                 /\ stopAcked' = FALSE
                 /\ UNCHANGED <<i, logs>>
  /\ UNCHANGED <<cliVars, handlers, pmVars, runLogs>>

\* Download step 1 succeeded: the handler produced its item stream, and
\* step 2 sized the pool
Resolve ==
  /\ pc = "download" /\ dm.phase = "resolve"
  /\ LET e == EffectiveConcurrency(workers, HasCeiling(plugin), Ceiling(plugin), override)
     IN dm' = [dm EXCEPT !.phase = "running", !.effective = e]
  /\ UNCHANGED <<cliVars, mainVars, pmVars, obsVars, sdVars, repVars>>

\* Download step 1 failed: Download returns an error (lines 195-198)
DownloadFails ==
  /\ pc = "download" /\ dm.phase = "resolve"
  /\ dm' = [dm EXCEPT !.phase = "failed"]
  /\ runLogs' = runLogs \cup {Log(DownloadErrLevel, "download", i, "resolve")}
  /\ IF Exits(DownloadErrLevel)
       THEN pc' = "exited" /\ dpc' = dpc
       ELSE pc' = "defer" /\ dpc' = 1
  /\ UNCHANGED <<cliVars, i, handlers, plugin, pmVars, logs, started, panicking, repVars>>

\* the item the stream hands to the claiming worker
NextItemRepeat(d) == IF Len(d.items) = 0 THEN 1 ELSE Len(d.items)

NextItem(d) == Len(d.items) + 1

\* an idle worker of the pool claims the next undispatched item of the stream
Claim ==
  /\ pc = "download" /\ dm.phase = "running"
  /\ Active(dm) < dm.effective
  /\ ~dm.exhausted /\ Len(dm.items) < MaxItems
  /\ LET k == NextItem(dm)
     IN dm' = [dm EXCEPT !.items = Append(dm.items, [id |-> k, state |-> "inprogress"]),
                         !.active = dm.active \cup {k}]
  /\ UNCHANGED <<cliVars, mainVars, pmVars, obsVars, sdVars, repVars>>

\* the lazy item stream turns out to have no further item
Exhaust ==
  /\ pc = "download" /\ dm.phase = "running"
  /\ ~dm.exhausted
  /\ dm' = [dm EXCEPT !.exhausted = TRUE]
  /\ UNCHANGED <<cliVars, mainVars, pmVars, obsVars, sdVars, repVars>>

\* the fetch-and-save of item k ends, with success or with a fetch failure
Finish(k) ==
  /\ pc = "download" /\ dm.phase = "running"
  /\ k \in dm.active
  /\ \E ok \in BOOLEAN :
       LET d == Tally(dm, ok)
       IN dm' = [d EXCEPT !.items = Record(dm.items, k, IF ok THEN "done" ELSE "failed"),
                          !.active = dm.active \ {k}]
  /\ UNCHANGED <<cliVars, mainVars, pmVars, obsVars, sdVars, repVars>>

\* an unrecoverable fault in the worker fetching item k aborts Download with a
\* panic, which unwinds startDownloading through its deferred calls
WorkerPanic(k) ==
  /\ pc = "download" /\ dm.phase = "running"
  /\ k \in dm.active
  /\ dm' = [dm EXCEPT !.phase = "panicked"]
  /\ panicking' = TRUE
  /\ pc' = "defer" /\ dpc' = 1
  /\ UNCHANGED <<cliVars, i, handlers, plugin, pmVars, obsVars, repVars>>

ReportedCountDone(dls) ==
  Len(SelectSeq(dls, LAMBDA it : it.state = "done"))

\* len(dls) of line 199
ReportedCount(dls) == Len(dls)

\* Download step 5: stream exhausted and every dispatched item terminal;
\* the result is reported (line 199)
DownloadReturns ==
  /\ pc = "download" /\ dm.phase = "running"
  /\ dm.exhausted
  /\ Active(dm) = 0
  /\ LET dls == dm.items
     IN dm' = [dm EXCEPT !.phase = "returned", !.dls = dls,
                         !.reported = ReportedCount(dls)]
  /\ runLogs' = runLogs \cup {Log("info", "done", i, None)}
  /\ pc' = "defer" /\ dpc' = 1
  /\ UNCHANGED <<cliVars, i, handlers, plugin, pmVars, logs, started, panicking, repVars>>

\* ------------------------------------------------------- deferred calls
AtDefer(op) == pc = "defer" /\ dpc \in 1..Len(DeferOps) /\ DeferOps[dpc] = op

\* ticker.Stop() of line 179: no further tick is delivered, a tick already
\* in the channel stays there
TickerStop ==
  /\ AtDefer("ticker.Stop")
  /\ tickerOn' = FALSE
  /\ dpc' = dpc + 1
  /\ UNCHANGED <<cliVars, mainVars, pmVars, obsVars, dm, panicking,
                 rpc, tickPending, lrReleased, stopAcked>>

\* done <- struct{}{} of line 180 meeting case <-done of line 188: the
\* channel is unbuffered, so the send completes only when the reporter
\* is at its select and takes it; the reporter then returns
SendDone ==
  /\ AtDefer("done<-")
  /\ rpc = "select"
  /\ rpc' = "exited"
  /\ stopAcked' = TRUE
  /\ dpc' = dpc + 1
  /\ UNCHANGED <<cliVars, mainVars, pmVars, obsVars, dm, panicking,
                 tickerOn, tickPending, lrReleased>>

\* lr.Release() of line 172
Release ==
  /\ AtDefer("lr.Release")
  /\ lrReleased' = TRUE
  /\ dpc' = dpc + 1
  /\ UNCHANGED <<cliVars, mainVars, pmVars, obsVars, dm, panicking,
                 rpc, tickerOn, tickPending, stopAcked>>

\* the recover of lines 167-171, then the return into main's loop
Recover ==
  /\ AtDefer("recover")
  /\ LET nxt == AfterUrl(i)
         exits == panicking /\ Exits(PanicLevel)
     IN /\ logs' = IF panicking
                     THEN logs \cup {Log(PanicLevel, "panicked", i, None)}
                     ELSE logs
        /\ IF exits
             THEN /\ pc' = "exited" /\ i' = i
                  /\ UNCHANGED <<dm, dpc, tickPending, runLogs>>
             ELSE /\ pc' = nxt.pc /\ i' = nxt.i
                  /\ dm' = IdleDm /\ dpc' = 0
                  /\ tickPending' = FALSE
                  /\ runLogs' = {}
  /\ panicking' = FALSE
  /\ UNCHANGED <<cliVars, handlers, plugin, pmVars, started,
                 rpc, tickerOn, lrReleased, stopAcked>>

\* -------------------------------------------- reporter goroutine (182-192)
Alive == pc \in {"download", "defer"}

\* the ticker puts a tick into its channel (capacity 1)
Tick ==
  /\ Alive /\ tickerOn /\ ~tickPending
  /\ tickPending' = TRUE
  /\ UNCHANGED <<cliVars, mainVars, pmVars, obsVars, dm, sdVars,
                 rpc, tickerOn, lrReleased, stopAcked>>

\* case <-ticker.C
ReceiveTick ==
  /\ Alive /\ rpc = "select" /\ tickPending
  /\ tickPending' = FALSE
  /\ rpc' = "render"
  /\ UNCHANGED <<cliVars, mainVars, pmVars, obsVars, dm, sdVars,
                 tickerOn, lrReleased, stopAcked>>

\* lr.Set(dm.ProgressString()); lr.Refresh(), then back to the select
Render ==
  /\ Alive /\ rpc = "render"
  /\ ProgressString(dm) \in Nat \X Nat
  /\ rpc' = "select"
  /\ UNCHANGED <<cliVars, mainVars, pmVars, obsVars, dm, sdVars,
                 tickerOn, tickPending, lrReleased, stopAcked>>

ItemIds == 1..MaxItems

Next ==
  \/ Negotiate
  \/ Select
  \/ Resolve
  \/ DownloadFails
  \/ Claim
  \/ Exhaust
  \/ \E k \in ItemIds : Finish(k)
  \/ \E k \in ItemIds : WorkerPanic(k)
  \/ DownloadReturns
  \/ TickerStop
  \/ SendDone
  \/ Release
  \/ Recover
  \/ Tick
  \/ ReceiveTick
  \/ Render

Spec == Init /\ [][Next]_vars

\* ------------------------------------------------ flag.Parse and the -o flag
\* flag.Parse (line 117) calls Set once for every -o argument of the command
\* line, in order, on the options map, which starts as the nil map
FlagInit ==
  /\ urls = <<>>
  /\ options = NoOptions
  /\ workers = 10
  /\ defaults = FALSE
  /\ noprompt = FALSE
  /\ override = FALSE
  /\ pc = "parse"
  /\ i = 1
  /\ handlers = <<>>
  /\ plugin = None
  /\ bundle = [p \in PluginSet |-> [k \in KeysOf(p) |-> None]]
  /\ configured = {}
  /\ prompts = {}
  /\ logs = {}
  /\ started = {}
  /\ runLogs = {}
  /\ dm = IdleDm
  /\ panicking = FALSE
  /\ dpc = 0
  /\ rpc = "none"
  /\ tickerOn = FALSE
  /\ tickPending = FALSE
  /\ lrReleased = FALSE
  /\ stopAcked = FALSE
  /\ oargs = <<>>
  /\ setErr = None

SetOption(v) ==
  /\ pc = "parse"
  /\ Len(oargs) < MaxSets
  /\ LET r == OptionsFlagSet(options, v)
     IN /\ options' = r.opt
        /\ setErr' = r.err
  /\ oargs' = Append(oargs, v)
  /\ UNCHANGED <<urls, workers, defaults, noprompt, override, mainVars, pmVars,
                 obsVars, dm, sdVars, repVars>>

FlagNext == \E v \in Strings(MaxArgLen) : SetOption(v)

FlagSpec == FlagInit /\ [][FlagNext]_vars

\* ------------------------------------------------------------ properties
Terminal == pc \in {"done", "exited"}

InRun == pc \in {"download", "defer"}

Range(f) == {f[n] : n \in DOMAIN f}

Logged(msg, n) == \E l \in logs : l.msg = msg /\ l.url = n

InvalidChoiceLogged == \E l \in logs : l.msg = "selection" /\ l.arg = "invalid choice"

NegotiationFailed == \E l \in logs : l.msg = "negotiation"

PanicLogged == \E l \in logs : l.msg = "panicked"

Min(a, b) == IF a <= b THEN a ELSE b

TypeOK ==
  /\ pc \in {"negotiate", "select", "download", "defer", "done", "exited"}
  /\ i \in 1..Len(urls)
  /\ rpc \in {"none", "select", "render", "exited"}
  /\ dm.completed + dm.failed <= MaxItems

\* C1: in an invocation with several URLs, a URL without any handler gets an
\* empty candidate set, an error is logged for it, its run is skipped, and
\* every other URL that has a handler still has its download run started
\* (stated for invocations in which nothing else goes wrong)
C1_NoHandlerOthersStillRun ==
  (Terminal /\ Len(urls) > 1
     /\ ~NegotiationFailed /\ ~InvalidChoiceLogged /\ ~PanicLogged)
  => \A n \in 1..Len(urls) :
       handlers[n] = <<>> =>
         /\ Logged("no handler", n)
         /\ n \notin started
         /\ \A m \in 1..Len(urls) : handlers[m] # <<>> => m \in started

\* C2: a panic during the Download of one URL becomes a logged error for that
\* URL only: the process does not terminate on it and every URL queued after
\* it is still selected and downloaded
C2_PanicIsolatedToUrl ==
  \A n \in 1..Len(urls) :
    (Logged("panicked", n) /\ n < Len(urls)) =>
      /\ ~(pc = "exited" /\ i = n)
      /\ Terminal =>
           \A m \in (n + 1)..Len(urls) :
             m \in started \/ Logged("selection", m)

\* C3: a selection failure for one URL aborts only that URL: the URLs that
\* follow it are still selected and downloaded
C3_SelectionFailureIsolated ==
  \A n \in 1..Len(urls) :
    (Logged("selection", n) /\ n < Len(urls)) =>
      /\ ~(pc = "exited" /\ i = n)
      /\ (Terminal /\ ~PanicLogged) =>
           \A m \in (n + 1)..Len(urls) :
             m \in started \/ Logged("selection", m)

RequiredSet(p) ==
  \A n \in 1..Len(OptionsOf(p)) :
    OptionsOf(p)[n].required => bundle[p][OptionsOf(p)[n].key] # None

\* C4: SetOptions has succeeded for every candidate handler of every URL
\* before the first Download starts, so the handler bound to a scheduled item
\* has all its required options set, and no bundle changes once the first
\* Download has started
C4_NegotiatedBeforeDownload ==
  /\ [](started # {} =>
          /\ \A n \in 1..Len(urls) : \A p \in Range(handlers[n]) :
                p \in configured /\ RequiredSet(p)
          /\ dm.items # <<>> => (plugin \in configured /\ RequiredSet(plugin)))
  /\ [][started # {} => bundle' = bundle]_vars

C4_Witness ==
  /\ Len(urls) = 2
  /\ started = {1, 2}
  /\ dm.items # <<>>
  /\ plugin = "P3"
  /\ bundle["P3"]["token"] = "typed"
  /\ bundle["P1"]["user"] = "typed"

\* C5: on every exit path of startDownloading the stop signal is sent on the
\* unbuffered done channel and received by the reporter; after that handshake
\* the reporter never calls ProgressString, lr.Set or lr.Refresh again, so
\* nothing is rendered after lr.Release or after startDownloading returned
C5_ReporterStopSynchronous ==
  /\ [](stopAcked => rpc = "exited")
  /\ [](lrReleased => (stopAcked /\ rpc = "exited"))
  /\ []((~InRun /\ started # {}) => (stopAcked /\ rpc = "exited"))
  /\ [][((stopAcked \/ lrReleased) /\ pc' # "download")
          => rpc' = rpc]_vars

C5_Witness ==
  /\ pc = "defer"
  /\ panicking
  /\ stopAcked /\ lrReleased
  /\ tickPending

\* C6: the number of active workers never exceeds the effective concurrency,
\* which is at most min(requestedWorkers, handlerCeiling) without override and
\* exactly requestedWorkers with override
C6_EffectiveConcurrencyBound ==
  dm.phase = "running" =>
    /\ Active(dm) <= dm.effective
    /\ (~override /\ HasCeiling(plugin)) =>
          dm.effective <= Min(workers, Ceiling(plugin))
    /\ (~override /\ ~HasCeiling(plugin)) => dm.effective <= workers
    /\ override => dm.effective = workers

ExpectedValue(p, o) ==
  IF o.key \in DOMAIN options THEN bundle[p][o.key] = options[o.key]
  ELSE IF defaults /\ o.default # None THEN bundle[p][o.key] = o.default
  ELSE IF o.required /\ ~noprompt
    THEN bundle[p][o.key] \in Answers /\ <<p, o.key, bundle[p][o.key]>> \in prompts
  ELSE bundle[p][o.key] = None

PromptExpected(p, o) ==
  /\ o.key \notin DOMAIN options
  /\ ~(defaults /\ o.default # None)
  /\ o.required /\ ~noprompt

Unresolvable(o) ==
  /\ o.required
  /\ o.key \notin DOMAIN options
  /\ ~(defaults /\ o.default # None)

\* the positions <<url, candidate, option>> of the unresolvable options
UnresolvedAt ==
  {t \in (1..Len(urls)) \X (1..Len(Plugins)) \X (1..Len(OptionsOf("P3"))) :
     /\ t[2] <= Len(handlers[t[1]])
     /\ t[3] <= Len(OptionsOf(handlers[t[1]][t[2]]))
     /\ Unresolvable(OptionsOf(handlers[t[1]][t[2]])[t[3]])}

Before(s, t) ==
  \/ s[1] < t[1]
  \/ s[1] = t[1] /\ s[2] < t[2]
  \/ s[1] = t[1] /\ s[2] = t[2] /\ s[3] <= t[3]

FirstUnresolved == CHOOSE t \in UnresolvedAt : \A s \in UnresolvedAt : Before(t, s)

\* C8: with --no-prompt, a handler with a required option that has neither an
\* override nor a usable default makes negotiation fail with an error naming
\* that key, without any prompt and before any item of any URL is fetched
C8_NoPromptFailsBeforeFetch ==
  (noprompt /\ UnresolvedAt # {}) =>
    /\ prompts = {}
    /\ started = {} /\ dm = IdleDm
    /\ pc \in {"negotiate", "exited"}
    /\ pc = "negotiate" => i <= FirstUnresolved[1]
    /\ pc = "exited" =>
         LET t == FirstUnresolved
         IN Log("fatal", "negotiation", t[1],
                OptionsOf(handlers[t[1]][t[2]])[t[3]].key) \in logs

C8_Witness ==
  /\ noprompt
  /\ pc = "exited"
  /\ Len(urls) = 2
  /\ Log("fatal", "negotiation", 2, "user") \in logs

\* C9: workers claim the items in discovery order, and the returned result
\* set lists them in discovery order whatever the completion order was
C9_ResultsInDiscoveryOrder ==
  /\ [](\A n \in 1..Len(dm.items) : dm.items[n].id = n)
  /\ [](dm.phase = "returned" =>
          /\ Len(dm.dls) = Len(dm.items)
          /\ \A n \in 1..Len(dm.dls) :
               dm.dls[n].id = n /\ dm.dls[n].state \in {"done", "failed"})
  /\ [][(InRun /\ pc' = "download" /\ Len(dm'.items) > Len(dm.items)) =>
           /\ Len(dm'.items) = Len(dm.items) + 1
           /\ dm'.items[Len(dm'.items)].id = Len(dm.items) + 1
           /\ SubSeq(dm'.items, 1, Len(dm.items)) = dm.items]_vars

\* item 2 has completed while item 1, discovered first, is still being fetched
C9_Witness ==
  /\ dm.phase = "running"
  /\ Len(dm.items) = 2
  /\ dm.items[1].id = 1 /\ dm.items[1].state = "inprogress"
  /\ dm.items[2].id = 2 /\ dm.items[2].state = "done"

\* C10: during a Download run the completed and failed tallies, and the
\* snapshot of them the reporter can read in any state, never decrease from
\* one state to the next, and when the run completes completed + failed is
\* the number of items discovered
C10_TalliesMonotonic ==
  /\ [](dm.phase = "returned" =>
          dm.completed + dm.failed = Len(dm.items))
  /\ [][(InRun /\ pc' \in {"download", "defer"}) =>
           /\ dm'.completed >= dm.completed
           /\ dm'.failed >= dm.failed
           /\ ProgressString(dm')[1] >= ProgressString(dm)[1]
           /\ ProgressString(dm')[2] >= ProgressString(dm)[2]]_vars

C10_Witness ==
  /\ dm.phase = "returned"
  /\ dm.completed = 1 /\ dm.failed = 1
  /\ Len(dm.dls) = 2

\* C11: a fetch failure of one item marks only that item failed and adds one
\* to the failed tally; the sibling workers keep their items, Download keeps
\* running, and when it returns it returns a result, not an error, with
\* every discovered item done or failed
C11_ItemFailureIsolated ==
  /\ [][(dm.phase = "running" /\ dm'.failed > dm.failed) =>
          /\ dm'.failed = dm.failed + 1
          /\ dm'.completed = dm.completed
          /\ dm'.phase = "running" /\ pc' = "download"
          /\ Len(dm'.items) = Len(dm.items)
          /\ \E n \in 1..Len(dm.items) :
               /\ dm.items[n].state = "inprogress"
               /\ dm'.items[n] = [id |-> dm.items[n].id, state |-> "failed"]
               /\ dm'.active = dm.active \ {dm.items[n].id}
               /\ \A m \in 1..Len(dm.items) : m # n => dm'.items[m] = dm.items[m]
          /\ runLogs' = runLogs /\ logs' = logs]_vars
  /\ []((pc = "defer" /\ dm.failed > 0 /\ ~panicking) =>
          /\ dm.phase = "returned"
          /\ runLogs = {Log("info", "done", i, None)}
          /\ \A n \in 1..Len(dm.items) : dm.items[n].state \in {"done", "failed"})

\* item 1 failed, item 2 was still fetched, and Download returned a result
C11_Witness ==
  /\ pc = "defer" /\ dm.phase = "returned"
  /\ Len(dm.items) = 2
  /\ dm.items[1].state = "failed"
  /\ dm.items[2].state = "done"
  /\ runLogs = {Log("info", "done", i, None)}

\* C12: a run of startDownloading ends with exactly one outcome, the reported
\* count or a logged error, never both; an error returned by Download does
\* not end the process: the deferred calls stop the reporter and main goes
\* on to the next URL
C12_OneOutcomePerUrl ==
  /\ []((pc = "defer" /\ ~panicking) =>
          /\ dm.phase \in {"returned", "failed"}
          /\ Cardinality(runLogs) = 1
          /\ dm.phase = "returned" <=> runLogs = {Log("info", "done", i, None)}
          /\ dm.phase = "failed" <=> runLogs = {Log("error", "download", i, "resolve")})
  /\ []((pc = "defer" /\ panicking) => runLogs = {})
  /\ [][(dm.phase = "resolve" /\ dm'.phase = "failed") => pc' = "defer"]_vars
  /\ [][(pc = "defer" /\ dm.phase = "failed" /\ pc' # "defer") =>
          /\ stopAcked /\ rpc = "exited" /\ ~tickerOn /\ lrReleased
          /\ pc' = (IF i < Len(urls) THEN "select" ELSE "done")
          /\ i < Len(urls) => i' = i + 1]_vars

\* Download failed for the first of two URLs and the reporter has been stopped
C12_Witness ==
  /\ pc = "defer" /\ dm.phase = "failed"
  /\ Len(urls) = 2 /\ i = 1
  /\ stopAcked /\ rpc = "exited"
  /\ runLogs = {Log("error", "download", 1, "resolve")}

\* what negotiating handler p yields when the --defaults flag is d and the
\* other flags are those of the invocation
OutcomeWith(p, d, answer) ==
  LET r == NegotiatePlugin(OptionsOf(p), options, d, noprompt, answer,
             [vals |-> [k \in KeysOf(p) |-> None], asked |-> {}, err |-> None])
  IN [vals |-> r.vals, err |-> r.err]

\* C13: with --no-prompt the --defaults flag has no effect: the bundle a
\* handler was negotiated to, or the failure negotiation ended with, is the
\* one the opposite setting of --defaults yields
C13_DefaultsNoEffectUnderNoPrompt ==
  noprompt =>
    /\ \A p \in configured : \A a \in Answers :
         OutcomeWith(p, ~defaults, a) = [vals |-> bundle[p], err |-> None]
    /\ \A l \in logs : l.msg = "negotiation" =>
         \E p \in Range(handlers[l.url]) : \A a \in Answers :
           OutcomeWith(p, ~defaults, a).err = l.arg

\* C14: option prompts are issued only by the negotiation loop and the
\* selection prompt only at the head of the second loop's body; in both
\* places no Download call is in progress and no reporter goroutine is
\* alive, and during a run no prompt is issued and no handler is selected
C14_NoPromptWhileDownloading ==
  /\ [](pc \in {"negotiate", "select"} =>
          /\ dm.phase = "idle" /\ dm.active = {}
          /\ rpc \in {"none", "exited"})
  /\ [][prompts' # prompts =>
          /\ pc = "negotiate"
          /\ started = {} /\ dm.phase = "idle" /\ rpc = "none"]_vars
  /\ [][InRun => (prompts' = prompts /\ plugin' = plugin /\ bundle' = bundle)]_vars

\* the selection prompt for the second URL, which has two candidates, after
\* the run of the first URL
C14_Witness ==
  /\ pc = "select" /\ i = 2
  /\ Len(handlers[2]) > 1
  /\ 1 \in started
  /\ prompts # {}
  /\ rpc = "exited" /\ dm.phase = "idle"

\* C15: when Download succeeds, the count written by "Done! Got a total of
\* %d downloads." is the length of the returned result set, which holds
\* every item that was attempted, the failed ones included, so it is the
\* number of items discovered
C15_ReportedCountIsTotal ==
  dm.phase = "returned" =>
    /\ Log("info", "done", i, None) \in runLogs
    /\ dm.reported = Len(dm.dls)
    /\ dm.reported = Len(dm.items)
    /\ dm.reported = dm.completed + dm.failed
    /\ dm.reported = Cardinality({n \in 1..Len(dm.items) :
                                    dm.items[n].state \in {"done", "failed"}})

\* both items of the run failed and the reported count is 2
C15_Witness ==
  /\ dm.phase = "returned"
  /\ dm.failed = 2 /\ dm.completed = 0
  /\ dm.reported = 2

\* ----------------------------------------------------------- scheduling
\* The Go scheduler runs every goroutine that is able to take a step: the
\* workers of the pool and the goroutine running Download, the deferred
\* calls of startDownloading, and the reporter.  Nothing is assumed of the
\* operator (Negotiate and Select may wait for input for ever), of the
\* ticker, or of faults.
Fairness ==
  /\ WF_vars(Resolve \/ DownloadFails)
  /\ WF_vars(Claim)
  /\ WF_vars(Exhaust)
  /\ \A k \in ItemIds : WF_vars(Finish(k))
  /\ WF_vars(DownloadReturns)
  /\ WF_vars(TickerStop)
  /\ WF_vars(SendDone)
  /\ WF_vars(Release)
  /\ WF_vars(Recover)
  /\ WF_vars(ReceiveTick)
  /\ WF_vars(Render)

\* The option flags act in the negotiation loop only, which is over before
\* the first Download; the fair specification fixes them to an invocation
\* in which every candidate is negotiated (-d, no -o, prompts allowed) and
\* keeps every URL list, worker count and override setting.
FairInit == Init /\ options = NoOptions /\ defaults /\ ~noprompt

FairSpec == FairInit /\ [][Next]_vars /\ Fairness

ItemIdsOf(items) == {items[n].id : n \in 1..Len(items)}

\* C16: Download returns only when the stream is exhausted and every
\* dispatched item is done or failed; every item of the stream is handed to
\* exactly one worker, none skipped and none twice; and under fair
\* scheduling, in a run without a fault, a Download that was started
\* eventually returns
C16_DownloadCompletes ==
  /\ [](dm.phase = "returned" =>
          /\ dm.exhausted /\ dm.active = {}
          /\ \A n \in 1..Len(dm.items) : dm.items[n].state \in {"done", "failed"})
  /\ [](\A m, n \in 1..Len(dm.items) : dm.items[m].id = dm.items[n].id => m = n)
  /\ [](ItemIdsOf(dm.items) = 1..Len(dm.items))
  /\ [](dm.active = {dm.items[n].id : n \in {m \in 1..Len(dm.items) :
                                               dm.items[m].state = "inprogress"}})
  /\ [][Len(dm'.items) > Len(dm.items) =>
          /\ ~dm.exhausted /\ Active(dm) < dm.effective
          /\ \E k \in ItemIds \ ItemIdsOf(dm.items) :
               /\ dm'.items = Append(dm.items, [id |-> k, state |-> "inprogress"])
               /\ dm'.active = dm.active \cup {k}]_vars
  /\ ([]~(dm.phase = "panicked")) =>
       ((dm.phase \in {"resolve", "running"}) ~> (dm.phase \in {"returned", "failed"}))

\* two items went one after the other through a pool of one worker and
\* Download returned
C16_Witness ==
  /\ dm.phase = "returned"
  /\ dm.effective = 1
  /\ dm.exhausted
  /\ Len(dm.items) = 2

\* C17: once Download has returned or panicked, under fair scheduling the
\* send on the done channel is received, the reporter exits and
\* startDownloading finishes; the sender never waits for a reporter that
\* has already exited; the deferred calls start in states with and without
\* a pending tick, so the case of a tick and the stop signal being ready
\* together is among those covered
C17_StopHandshakeCompletes ==
  /\ [](AtDefer("done<-") => rpc \in {"select", "render"})
  /\ (pc = "defer") ~> (pc # "defer" /\ stopAcked /\ rpc = "exited")

\* Download has panicked, the stop signal is being sent and a tick is
\* waiting in the ticker's channel: both cases of the select are ready
C17_Witness ==
  /\ AtDefer("done<-")
  /\ panicking
  /\ rpc = "select"
  /\ tickPending /\ ~tickerOn

\* C18: the second loop takes the URLs in command-line order and starts the
\* selection and the download of a URL only after startDownloading of the
\* previous one has returned: a run starts with no Download in progress and
\* no reporter alive, a reporter is alive only within the current run, and
\* the handler a run uses is one that claimed the URL of that run
C18_UrlsSequential ==
  /\ [](\A n \in 1..Len(urls) : handlers[n] = SelectClaiming(Plugins, urls[n]))
  /\ [](InRun => (i \in started /\ plugin \in Range(handlers[i])
                    /\ Claims(plugin, urls[i])))
  /\ [](\A n \in started : n <= i)
  /\ [](pc = "select" => i \notin started)
  /\ [](rpc \in {"select", "render"} => InRun)
  /\ [](dm.phase # "idle" => pc \in {"download", "defer", "exited"})
  /\ [][started' # started =>
          /\ i \notin started /\ started' = started \cup {i}
          /\ \A n \in started : n < i
          /\ dm.phase = "idle" /\ rpc \in {"none", "exited"}
          /\ started # {} => (stopAcked /\ lrReleased /\ ~tickerOn)
          /\ pc' = "download" /\ i' = i
          /\ Claims(plugin', urls[i])]_vars

\* the run of the second URL, with a handler that claims it, after the run
\* of the first
C18_Witness ==
  /\ urls = <<"a", "b">>
  /\ pc = "download" /\ i = 2
  /\ started = {1, 2}
  /\ plugin = "P3"
  /\ dm.phase = "running" /\ rpc = "render"

HasEq(v) == \E n \in 1..Len(v) : v[n] = "="

\* the Set calls so far whose argument is key, "=", and anything
SetsOf(key) ==
  {n \in 1..Len(oargs) :
     /\ Len(oargs[n]) > Len(key)
     /\ SubSeq(oargs[n], 1, Len(key)) = key
     /\ oargs[n][Len(key) + 1] = "="}

LastOf(S) == CHOOSE n \in S : \A m \in S : m <= n

\* C19: Set splits its argument at the first "=" only: without any "=" it
\* returns ErrInvalidOptionFormat and leaves the map as it was; otherwise it
\* returns nil and writes the entry of that key only, with everything
\* after the first "=" as the value; after any sequence of calls every key
\* holds the value of the last successful call for it
C19_SetSplitsAtFirstEq ==
  /\ [][oargs' # oargs =>
          LET v == oargs'[Len(oargs')]
          IN IF ~HasEq(v)
               THEN setErr' = ErrInvalidOptionFormat /\ options' = options
               ELSE /\ setErr' = None
                    /\ \E key \in DOMAIN options' :
                         /\ ~HasEq(key)
                         /\ v = key \o <<"=">> \o options'[key]
                         /\ DOMAIN options' = DOMAIN options \cup {key}
                         /\ \A k \in DOMAIN options :
                              k # key => options'[k] = options[k]]_vars
  /\ [](pc = "parse" =>
          /\ \A key \in DOMAIN options :
               /\ ~HasEq(key)
               /\ SetsOf(key) # {}
               /\ LET v == oargs[LastOf(SetsOf(key))]
                  IN options[key] = SubSeq(v, Len(key) + 2, Len(v))
          /\ \A key \in Strings(MaxArgLen) :
               (~HasEq(key) /\ SetsOf(key) # {}) => key \in DOMAIN options)

\* key k was set twice, the second time to a value that holds a "=", and a
\* third argument without "=" was refused
C19_Witness ==
  /\ pc = "parse"
  /\ oargs = << <<"k", "=", "k">>, <<"k", "=", "=">>, <<"k", "k">> >>
  /\ setErr = ErrInvalidOptionFormat
  /\ DOMAIN options = { <<"k">> }
  /\ options[<<"k">>] = <<"=">>

====
